---- MODULE Spec2Model ----
(***************************************************************************)
(* Listing records (hoteles, cabanas, airbnb) of the tourism backend:      *)
(* ownership-scoped create / update / soft delete, the ordered image list  *)
(* of each record and the super-administrator activation toggle.           *)
(*                                                                         *)
(* One action is one HTTP request handled to completion.  The variable     *)
(* `last' records the request just handled and the response it got, and    *)
(* `pre' is the database as it was before that request.  Where requests   *)
(* overlap, a handler awaiting its save is kept in `inflight' and the save *)
(* is an action of its own.                                                *)
(***************************************************************************)
EXTENDS Integers, Sequences, FiniteSets, TLC

VARIABLES db, pre, last, now, inflight

vars == <<db, pre, last, now, inflight>>

----------------------------------------------------------------------------
(* Bounds of the model *)

\* number of requests handled in one behaviour of a router (the clock stops there)
MaxSteps == 3
\* number of image operations the owner performs on a new hotel in SpecOwner
MaxOwnerOps == 3
\* longest image list a record is allowed to grow to
MaxImgs == 3
\* identifiers available to each lodging type
MaxDocs == 1
\* requests handled in one behaviour of SpecListing
MaxListingSteps == 4
\* rentals SpecListing stores
MaxListed == 2

----------------------------------------------------------------------------
(* Callers.  Every caller is authenticated and passes restrictTo('admin'). *)

EmailDireccion == "direcciondeturismojalpan@gmail.com"
EmailSuperadmin == "superadmin@turismo.com"

\* u1 is an ordinary administrator; u2 and u3 carry the two e-mail addresses the
\* handlers name.
Users ==
  { [id |-> "u1", email |-> "ana@example.com", isSuperAdmin |-> FALSE, role |-> "admin"],
    [id |-> "u2", email |-> EmailSuperadmin, isSuperAdmin |-> FALSE, role |-> "admin"],
    [id |-> "u3", email |-> EmailDireccion, isSuperAdmin |-> FALSE, role |-> "admin"] }

UserIds == { u.id : u \in Users }

Tipos == {"hotel", "cabana", "airbnb"}

DocIds == 1..MaxDocs

Keys == Tipos \X DocIds

----------------------------------------------------------------------------
(* JavaScript values the handlers compute with *)

\* A string is a sequence of one-character strings, so that parseInt, startsWith
\* and string concatenation are computed and not assumed.
\* the empty string
Empty == << >>

\* an array slot holding undefined / null (no string)
Undefined == <<"undefined">>

\* s.startsWith(p)
StartsWith(s, p) == Len(s) >= Len(p) /\ SubSeq(s, 1, Len(p)) = p

\* a JavaScript number that is either an integer or NaN
Num(n) == [nan |-> FALSE, n |-> n]
NaN == [nan |-> TRUE, n |-> 0]

Digits == {"0", "1", "2", "3", "4", "5", "6", "7", "8", "9"}

DigitVal(c) ==
  CASE c = "0" -> 0 [] c = "1" -> 1 [] c = "2" -> 2 [] c = "3" -> 3 [] c = "4" -> 4
    [] c = "5" -> 5 [] c = "6" -> 6 [] c = "7" -> 7 [] c = "8" -> 8 [] c = "9" -> 9

\* value of the longest prefix of digits of s, starting from acc
RECURSIVE digitsPrefix(_, _)
digitsPrefix(s, acc) ==
  IF s = << >> \/ Head(s) \notin Digits THEN acc
  ELSE digitsPrefix(Tail(s), 10 * acc + DigitVal(Head(s)))

\* parseInt(text): optional sign, then the longest prefix of digits; NaN when
\* there is no digit.  The text is a sequence of one-character strings.
parseInt(s) ==
  LET neg == s # << >> /\ Head(s) = "-"
      body == IF s # << >> /\ Head(s) \in {"-", "+"} THEN Tail(s) ELSE s
  IN IF body = << >> \/ Head(body) \notin Digits THEN NaN
     ELSE Num((IF neg THEN -1 ELSE 1) * digitsPrefix(body, 0))

\* index < k and index >= k on JavaScript numbers: false when index is NaN
JsLt(x, k) == ~x.nan /\ x.n < k
JsGe(x, k) == ~x.nan /\ x.n >= k
\* index === 0
JsIsZero(x) == ~x.nan /\ x.n = 0

\* arr[index]: undefined outside the array and for NaN
JsAt(arr, x) ==
  IF ~x.nan /\ x.n >= 0 /\ x.n < Len(arr) THEN arr[x.n + 1] ELSE Undefined

\* !value on an array slot: undefined, null and the empty string are falsy
Falsy(v) == v = Undefined \/ v = Empty

\* the position Array.prototype.splice starts at: NaN counts as 0, a negative
\* start counts from the end, and the result is clamped to [0, length]
SpliceStart(arr, x) ==
  LET rel == IF x.nan THEN 0 ELSE x.n
  IN IF rel < 0 THEN (IF Len(arr) + rel < 0 THEN 0 ELSE Len(arr) + rel)
     ELSE (IF rel > Len(arr) THEN Len(arr) ELSE rel)

\* arr.splice(index, 1): the removed elements and what is left of the array
Splice1(arr, x) ==
  LET s == SpliceStart(arr, x)
  IN IF s >= Len(arr) THEN [removed |-> << >>, rest |-> arr]
     ELSE [removed |-> <<arr[s + 1]>>,
           rest |-> SubSeq(arr, 1, s) \o SubSeq(arr, s + 2, Len(arr))]

\* arr.splice(index, 1)[0]
SpliceFirst(arr, x) ==
  LET r == Splice1(arr, x).removed IN IF r = << >> THEN Undefined ELSE r[1]

\* a slip: the value is put at the end of the array
UnshiftAtEnd(arr, v) == arr \o <<v>>

\* arr.unshift(v)
Unshift(arr, v) == <<v>> \o arr

\* a slip: the new items are put in front of the array
PushFront(arr, items) == items \o arr

\* arr.push(...items)
Push(arr, items) == arr \o items

----------------------------------------------------------------------------
(* Stored documents *)

NoStamp == [usuario |-> "", fecha |-> 0, accion |-> "", campos |-> {}]

\* findById
Exists(k) == k \in DOMAIN db

\* a lookup that does not filter by owner: findOne({ _id, activo: true })
FindOneActive(k, u) ==
  /\ k \in DOMAIN db
  /\ db[k].activo

\* a lookup that does not filter by the active flag:
\* findOne({ _id, propietario: req.user.id })
FindOneOwned(k, u) ==
  /\ k \in DOMAIN db
  /\ db[k].propietario = u.id

\* findOne({ _id, propietario: req.user.id, activo: true })
FindOneOwnedActive(k, u) ==
  /\ k \in DOMAIN db
  /\ db[k].propietario = u.id
  /\ db[k].activo

\* document.save() / findByIdAndUpdate: the stored document is replaced
Save(k, doc) ==
  IF k \in DOMAIN db THEN [db EXCEPT ![k] = doc]
  ELSE [x \in DOMAIN db \cup {k} |-> IF x = k THEN doc ELSE db[x]]

----------------------------------------------------------------------------
(* Requests and responses *)

NoIndex == Num(-1)

\* a request without body (req.body = {}) and without query string
NoBody == << >>
NoQuery == << >>

\* the outcome of a handler: the response, the document to save (if any), and
\* whether the media host was asked to destroy an asset
Reply(status, msg, img, saved, doc, destroy) ==
  [status |-> status, msg |-> msg, img |-> img, saved |-> saved, doc |-> doc,
   destroy |-> destroy]

\* the request is handled at time now + 1: the database takes the reply's
\* document when the handler saved, and the request and its response are noted
RespondFiles(op, k, u, index, files, r) ==
  /\ now' = now + 1
  /\ inflight' = inflight
  /\ pre' = db
  /\ db' = IF r.saved THEN Save(k, r.doc) ELSE db
  /\ last' = [op |-> op, tipo |-> k[1], key |-> k, user |-> u.id, index |-> index,
              files |-> files, status |-> r.status, msg |-> r.msg, img |-> r.img,
              saved |-> r.saved, destroy |-> r.destroy,
              count |-> IF r.saved THEN Len(r.doc.imagenes) ELSE 0,
              body |-> NoBody, query |-> NoQuery, results |-> << >>]

\* a request that uploads no file
Respond(op, k, u, index, r) == RespondFiles(op, k, u, index, << >>, r)

\* a request to a router, while the behaviour has requests left
Handle(op, k, u, index, r) == now < MaxSteps /\ Respond(op, k, u, index, r)

\* an upload to a router, while the behaviour has requests left
HandleFiles(op, k, u, files, r) ==
  now < MaxSteps /\ RespondFiles(op, k, u, NoIndex, files, r)

\* a handler that answers without saving
Answer(status, msg, img) == Reply(status, msg, img, FALSE, << >>, "none")

\* what the try block around cloudinary.uploader.destroy does for the image
\* taken from the list: imagen.split('/') throws on undefined / null before
\* the media host is called, and any failure is caught and logged
DestroyAttempt(imagen, outcome) == IF imagen = Undefined THEN "none" ELSE outcome

\* cloudinary.uploader.destroy resolves with result 'ok' or 'not found', or
\* rejects
DestroyOutcomes == {"ok", "not found", "error"}

----------------------------------------------------------------------------
(* Image routes of hotelRoutes.js *)

MsgHotelNoAsociado == "No se encontro hotel asociado o no tienes permisos"
MsgNoHayEliminar == "No hay imagenes para eliminar"
MsgNoHayDisponibles == "No hay imagenes disponibles"
MsgIndiceInvalido == "Indice de imagen invalido"
MsgYaPrincipal == "Esta imagen ya es la principal"
MsgEliminada == "Imagen eliminada exitosamente"
MsgPrincipalActualizada == "Imagen principal actualizada exitosamente"
MsgSubidas == "imagen(es) subida(s) exitosamente"
MsgNoArchivos == "No se enviaron archivos"

\* POST /:hotelId/images/upload
hotelUploadImages(k, u, files) ==
  IF Len(files) = 0 THEN Answer(400, MsgNoArchivos, Undefined)
  ELSE IF ~FindOneOwnedActive(k, u) THEN Answer(404, MsgHotelNoAsociado, Undefined)
  ELSE LET hotel == db[k]
           imagenes == Push(hotel.imagenes, files)
       IN Reply(200, MsgSubidas, Undefined, TRUE,
                [hotel EXCEPT !.imagenes = imagenes, !.updatedAt = now + 1], "none")

\* a slip: the media host is called outside the inner try, so its rejection
\* reaches the outer catch before the splice and the save
hotelDeleteImageNoInnerTry(k, u, index, outcome) ==
  IF ~FindOneOwnedActive(k, u) THEN Answer(404, MsgHotelNoAsociado, Undefined)
  ELSE LET hotel == db[k] IN
    IF Len(hotel.imagenes) = 0 THEN Answer(404, MsgNoHayEliminar, Undefined)
    ELSE IF JsLt(index, 0) \/ JsGe(index, Len(hotel.imagenes))
    THEN Answer(404, MsgIndiceInvalido, Undefined)
    ELSE LET imagenAEliminar == JsAt(hotel.imagenes, index)
             imagenes == Splice1(hotel.imagenes, index).rest
         IN IF DestroyAttempt(imagenAEliminar, outcome) = "error"
            THEN Reply(500, "Error del servidor al eliminar imagen", Undefined, FALSE,
                       << >>, "error")
            ELSE Reply(200, MsgEliminada, imagenAEliminar, TRUE,
                       [hotel EXCEPT !.imagenes = imagenes, !.updatedAt = now + 1],
                       DestroyAttempt(imagenAEliminar, outcome))

\* DELETE /:hotelId/images/:imageIndex
hotelDeleteImage(k, u, index, outcome) ==
  IF ~FindOneOwnedActive(k, u) THEN Answer(404, MsgHotelNoAsociado, Undefined)
  ELSE LET hotel == db[k] IN
    IF Len(hotel.imagenes) = 0 THEN Answer(404, MsgNoHayEliminar, Undefined)
    ELSE IF JsLt(index, 0) \/ JsGe(index, Len(hotel.imagenes))
    THEN Answer(404, MsgIndiceInvalido, Undefined)
    ELSE LET imagenAEliminar == JsAt(hotel.imagenes, index)
             imagenes == Splice1(hotel.imagenes, index).rest
         IN Reply(200, MsgEliminada, imagenAEliminar, TRUE,
                  [hotel EXCEPT !.imagenes = imagenes, !.updatedAt = now + 1],
                  DestroyAttempt(imagenAEliminar, outcome))

\* PATCH /:hotelId/images/set-main
hotelSetMain(k, u, index) ==
  IF ~FindOneOwnedActive(k, u) THEN Answer(404, MsgHotelNoAsociado, Undefined)
  ELSE LET hotel == db[k] IN
    IF Len(hotel.imagenes) = 0 THEN Answer(404, MsgNoHayDisponibles, Undefined)
    ELSE IF JsLt(index, 0) \/ JsGe(index, Len(hotel.imagenes))
    THEN Answer(404, MsgIndiceInvalido, Undefined)
    ELSE IF JsIsZero(index) THEN Answer(200, MsgYaPrincipal, hotel.imagenes[1])
    ELSE LET imagenPrincipal == SpliceFirst(hotel.imagenes, index)
             imagenes == Unshift(Splice1(hotel.imagenes, index).rest, imagenPrincipal)
         IN Reply(200, MsgPrincipalActualizada, imagenPrincipal, TRUE,
                  [hotel EXCEPT !.imagenes = imagenes, !.updatedAt = now + 1], "none")

----------------------------------------------------------------------------
(* Image routes of cabanaRoutes.js *)

MsgCabanaNoAsociada == "No se encontro cabana asociada o no tienes permisos"
MsgNoRecibidos == "No se recibieron archivos"

\* POST /:cabanaId/images/upload
cabanaUploadImages(k, u, files) ==
  IF Len(files) = 0 THEN Answer(400, MsgNoRecibidos, Undefined)
  ELSE IF ~FindOneOwnedActive(k, u) THEN Answer(404, MsgCabanaNoAsociada, Undefined)
  ELSE LET cabana == db[k]
           imagenes == Push(cabana.imagenes, files)
       IN Reply(200, MsgSubidas, Undefined, TRUE,
                [cabana EXCEPT !.imagenes = imagenes, !.updatedAt = now + 1], "none")

\* DELETE /:cabanaId/images/:index
cabanaDeleteImage(k, u, imageIndex, outcome) ==
  IF ~FindOneOwnedActive(k, u) THEN Answer(404, MsgCabanaNoAsociada, Undefined)
  ELSE LET cabana == db[k] IN
    IF Len(cabana.imagenes) = 0 THEN Answer(404, MsgNoHayEliminar, Undefined)
    ELSE IF JsLt(imageIndex, 0) \/ JsGe(imageIndex, Len(cabana.imagenes))
    THEN Answer(404, MsgIndiceInvalido, Undefined)
    ELSE LET imagenAEliminar == JsAt(cabana.imagenes, imageIndex)
             imagenes == Splice1(cabana.imagenes, imageIndex).rest
         IN Reply(200, MsgEliminada, imagenAEliminar, TRUE,
                  [cabana EXCEPT !.imagenes = imagenes, !.updatedAt = now + 1],
                  DestroyAttempt(imagenAEliminar, outcome))

\* PATCH /:cabanaId/images/set-main
cabanaSetMain(k, u, index) ==
  IF ~FindOneOwnedActive(k, u) THEN Answer(404, MsgCabanaNoAsociada, Undefined)
  ELSE LET cabana == db[k] IN
    IF Len(cabana.imagenes) = 0 THEN Answer(404, MsgNoHayDisponibles, Undefined)
    ELSE IF JsLt(index, 0) \/ JsGe(index, Len(cabana.imagenes))
    THEN Answer(400, MsgIndiceInvalido, Undefined)
    ELSE IF JsIsZero(index) THEN Answer(200, MsgYaPrincipal, cabana.imagenes[1])
    ELSE LET selectedImage == JsAt(cabana.imagenes, index)
             imagenes == Unshift(Splice1(cabana.imagenes, index).rest, selectedImage)
         IN Reply(200, MsgPrincipalActualizada, selectedImage, TRUE,
                  [cabana EXCEPT !.imagenes = imagenes, !.updatedAt = now + 1], "none")

----------------------------------------------------------------------------
(* Image routes of airbnbRoutes.js *)

MsgAlojamientoNoAsociado == "No se encontro alojamiento asociado o no tienes permisos"
MsgAlojamientoSinPermisos == "Alojamiento no encontrado o sin permisos"
MsgImagenNoEncontrada == "Imagen no encontrada"
MsgPrincipalEstablecida == "Imagen principal establecida exitosamente"
MsgNoArchivosImagen == "No se enviaron archivos de imagen"

\* POST /:alojamientoId/upload-images
airbnbUploadImages(k, u, files) ==
  IF Len(files) = 0 THEN Answer(400, MsgNoArchivosImagen, Undefined)
  ELSE IF ~FindOneOwnedActive(k, u) THEN Answer(404, MsgAlojamientoNoAsociado, Undefined)
  ELSE LET alojamiento == db[k]
           imagenes == Push(alojamiento.imagenes, files)
       IN Reply(200, MsgSubidas, Undefined, TRUE,
                [alojamiento EXCEPT !.imagenes = imagenes, !.updatedAt = now + 1], "none")

\* DELETE /:alojamientoId/images/:imageIndex
airbnbDeleteImage(k, u, index, outcome) ==
  IF ~FindOneOwnedActive(k, u) THEN Answer(404, MsgAlojamientoSinPermisos, Undefined)
  ELSE LET alojamiento == db[k] IN
    IF Falsy(JsAt(alojamiento.imagenes, index))
    THEN Answer(404, MsgImagenNoEncontrada, Undefined)
    ELSE LET imagenAEliminar == JsAt(alojamiento.imagenes, index)
             imagenes == Splice1(alojamiento.imagenes, index).rest
         IN Reply(200, MsgEliminada, imagenAEliminar, TRUE,
                  [alojamiento EXCEPT !.imagenes = imagenes, !.updatedAt = now + 1],
                  DestroyAttempt(imagenAEliminar, outcome))

\* PATCH /:alojamientoId/images/set-main
airbnbSetMain(k, u, index) ==
  IF ~FindOneOwnedActive(k, u) THEN Answer(404, MsgAlojamientoSinPermisos, Undefined)
  ELSE LET alojamiento == db[k] IN
    IF Falsy(JsAt(alojamiento.imagenes, index))
    THEN Answer(404, MsgImagenNoEncontrada, Undefined)
    ELSE IF JsIsZero(index) THEN Answer(200, MsgYaPrincipal, alojamiento.imagenes[1])
    ELSE LET imagenPrincipal == SpliceFirst(alojamiento.imagenes, index)
             imagenes == Unshift(Splice1(alojamiento.imagenes, index).rest, imagenPrincipal)
         IN Reply(200, MsgPrincipalEstablecida, imagenPrincipal, TRUE,
                  [alojamiento EXCEPT !.imagenes = imagenes, !.updatedAt = now + 1], "none")

----------------------------------------------------------------------------
(* airbnbController.js *)

MsgNoEncontrado == "No se encontro el alojamiento"
MsgSinPermisoActualizar == "No tienes permiso para actualizar este alojamiento"
MsgSinPermisoEliminar == "No tienes permiso para eliminar este alojamiento"
MsgActualizado == "Alojamiento actualizado exitosamente"
MsgValidacion == "Validation failed"

\* a slip: the e-mail list of the toggle routes copied into the controller
controllerIsSuperAdminWide(u) ==
  u.email = EmailSuperadmin \/ u.email = EmailDireccion \/ u.isSuperAdmin

\* the controller's super-admin test (updateAirbnb, deleteAirbnb)
controllerIsSuperAdmin(u) == u.email = EmailDireccion \/ u.isSuperAdmin

\* body[f], or dflt when the request body does not carry f
Field(body, f, dflt) == IF f \in DOMAIN body THEN body[f] ELSE dflt

\* the storage layer keeps updatedAt on every write
Timestamps(doc, t) == [doc EXCEPT !.updatedAt = t]

\* Model.create(body): the fields the body carries, the schema's defaults for
\* the others
NewDoc(body, t) ==
  [nombre |-> Field(body, "nombre", ""),
   propietario |-> Field(body, "propietario", ""),
   activo |-> Field(body, "activo", TRUE),
   imagenes |-> Field(body, "imagenes", << >>),
   tipoPropiedad |-> Field(body, "tipoPropiedad", ""),
   precioPorNoche |-> Field(body, "precioPorNoche", 0),
   ultimaModificacion |-> NoStamp,
   createdAt |-> t,
   updatedAt |-> t]

\* a slip: the owner is set only when the body names none
WithOwnerIfAbsent(body, u) ==
  [f \in DOMAIN body \cup {"propietario"} |->
     IF f \in DOMAIN body THEN body[f] ELSE u.id]

\* req.body.propietario = req.user.id
WithOwner(body, u) ==
  [f \in DOMAIN body \cup {"propietario"} |->
     IF f = "propietario" THEN u.id ELSE body[f]]

\* createAirbnb; `valid' is the verdict of the schema validators on the body
createAirbnb(u, body, valid) ==
  IF ~valid THEN Answer(400, MsgValidacion, Undefined)
  ELSE Reply(201, "", Undefined, TRUE, NewDoc(WithOwner(body, u), now + 1), "none")

\* findByIdAndUpdate(id, updateData): every field of updateData is set
ApplyUpdate(doc, updateData) ==
  [f \in DOMAIN doc |-> IF f \in DOMAIN updateData THEN updateData[f] ELSE doc[f]]

\* updateData = { ...req.body } with the audit stamp added
UpdateData(body, u, t) ==
  [f \in DOMAIN body \cup {"ultimaModificacion"} |->
     IF f = "ultimaModificacion"
     THEN [usuario |-> u.id, fecha |-> t, accion |-> "", campos |-> DOMAIN body]
     ELSE body[f]]

\* updateAirbnb
updateAirbnb(k, u, body, valid) ==
  IF ~Exists(k) THEN Answer(404, MsgNoEncontrado, Undefined)
  ELSE LET alojamiento == db[k] IN
    IF ~controllerIsSuperAdmin(u) /\ alojamiento.propietario # u.id
    THEN Answer(403, MsgSinPermisoActualizar, Undefined)
    ELSE IF ~valid THEN Answer(400, MsgValidacion, Undefined)
    ELSE Reply(200, MsgActualizado, Undefined, TRUE,
               Timestamps(ApplyUpdate(alojamiento, UpdateData(body, u, now + 1)), now + 1),
               "none")

\* deleteAirbnb
deleteAirbnb(k, u) ==
  IF ~Exists(k) THEN Answer(404, MsgNoEncontrado, Undefined)
  ELSE LET alojamiento == db[k] IN
    IF ~controllerIsSuperAdmin(u) /\ alojamiento.propietario # u.id
    THEN Answer(403, MsgSinPermisoEliminar, Undefined)
    ELSE Reply(204, "", Undefined, TRUE,
               Timestamps([alojamiento EXCEPT !.activo = FALSE], now + 1), "none")

----------------------------------------------------------------------------
(* create of the hotel and cabin controllers: owner = creator *)

createHotel(u, body, valid) ==
  IF ~valid THEN Answer(400, MsgValidacion, Undefined)
  ELSE Reply(201, "", Undefined, TRUE, NewDoc(WithOwner(body, u), now + 1), "none")

createCabana(u, body, valid) ==
  IF ~valid THEN Answer(400, MsgValidacion, Undefined)
  ELSE Reply(201, "", Undefined, TRUE, NewDoc(WithOwner(body, u), now + 1), "none")

----------------------------------------------------------------------------
(* PATCH /:id/toggle-status of the three routers *)

MsgSinPrivilegios == "No tienes permisos para realizar esta accion. Se requieren privilegios de super administrador."
MsgHotelNoEncontrado == "Hotel no encontrado"
MsgCabanaNoEncontrada == "Cabana no encontrada"
MsgAlojamientoNoEncontrado == "Alojamiento no encontrado"
MsgEstado == "estado cambiado exitosamente"

hotelToggleIsSuperAdmin(u) ==
  u.email = EmailDireccion \/ u.isSuperAdmin \/ u.role = "super-admin"

cabanaToggleIsSuperAdmin(u) ==
  \/ u.email = EmailSuperadmin
  \/ u.email = EmailDireccion
  \/ u.isSuperAdmin
  \/ u.role = "super-admin"

\* a slip: the role tested is the one restrictTo('admin') already requires
airbnbToggleAnyAdmin(u) ==
  \/ u.email = EmailSuperadmin
  \/ u.email = EmailDireccion
  \/ u.isSuperAdmin
  \/ u.role = "admin"

airbnbToggleIsSuperAdmin(u) ==
  \/ u.email = EmailSuperadmin
  \/ u.email = EmailDireccion
  \/ u.isSuperAdmin
  \/ u.role = "super-admin"

\* doc.activo = !doc.activo with the audit stamp
Toggled(doc, u, t) ==
  [doc EXCEPT !.activo = ~doc.activo,
              !.ultimaModificacion =
                 [usuario |-> u.id, fecha |-> t,
                  accion |-> IF ~doc.activo THEN "activado" ELSE "bloqueado",
                  campos |-> {}]]

hotelToggleStatus(k, u) ==
  IF ~hotelToggleIsSuperAdmin(u) THEN Answer(403, MsgSinPrivilegios, Undefined)
  ELSE IF ~Exists(k) THEN Answer(404, MsgHotelNoEncontrado, Undefined)
  ELSE Reply(200, MsgEstado, Undefined, TRUE,
             Timestamps(Toggled(db[k], u, now + 1), now + 1), "none")

cabanaToggleStatus(k, u) ==
  IF ~cabanaToggleIsSuperAdmin(u) THEN Answer(403, MsgSinPrivilegios, Undefined)
  ELSE IF ~Exists(k) THEN Answer(404, MsgCabanaNoEncontrada, Undefined)
  ELSE Reply(200, MsgEstado, Undefined, TRUE,
             Timestamps(Toggled(db[k], u, now + 1), now + 1), "none")

airbnbToggleStatus(k, u) ==
  IF ~airbnbToggleIsSuperAdmin(u) THEN Answer(403, MsgSinPrivilegios, Undefined)
  ELSE IF ~Exists(k) THEN Answer(404, MsgAlojamientoNoEncontrado, Undefined)
  ELSE Reply(200, MsgEstado, Undefined, TRUE,
             Timestamps(Toggled(db[k], u, now + 1), now + 1), "none")

----------------------------------------------------------------------------
(* GET /migrate-image-urls of cabanaRoutes.js *)

MsgMigracion == "Migracion completada"
MsgErrorMigracion == "Error en migracion"

Slash == <<"/">>
Http == <<"h", "t", "t", "p">>

\* the image is neither rooted ('/') nor a full URL ('http')
NeedsSlash(img) == ~StartsWith(img, Slash) /\ ~StartsWith(img, Http)

\* cabana.imagenes.map(...)
MigratedImages(imagenes) ==
  [i \in 1..Len(imagenes) |->
     IF NeedsSlash(imagenes[i]) THEN Slash \o imagenes[i] ELSE imagenes[i]]

\* The loop over the cabins that have images, in identifier order from i on.
\* img.startsWith throws on a null slot: the loop stops there with the earlier
\* cabins already saved.
RECURSIVE migrateFrom(_, _, _, _)
migrateFrom(i, d, migrated, t) ==
  IF i > MaxDocs THEN [db |-> d, migrated |-> migrated, threw |-> FALSE]
  ELSE LET k == <<"cabana", i>> IN
    IF k \notin DOMAIN d \/ d[k].imagenes = << >>
    THEN migrateFrom(i + 1, d, migrated, t)
    ELSE LET cabana == d[k] IN
      IF \E j \in 1..Len(cabana.imagenes) : cabana.imagenes[j] = Undefined
      THEN [db |-> d, migrated |-> migrated, threw |-> TRUE]
      ELSE IF \E j \in 1..Len(cabana.imagenes) : NeedsSlash(cabana.imagenes[j])
      THEN migrateFrom(i + 1,
             [d EXCEPT ![k] = Timestamps(
                [cabana EXCEPT !.imagenes = MigratedImages(cabana.imagenes)], t)],
             migrated + 1, t)
      ELSE migrateFrom(i + 1, d, migrated, t)

----------------------------------------------------------------------------
(* Inputs of the requests *)

DigitChar(i) == <<"0", "1", "2", "3", "4", "5", "6", "7", "8", "9">>[i + 1]

\* texts sent as image index: every position up to the longest list, a
\* negative number, a number followed by letters, and a word
RawIndices ==
  { <<DigitChar(i)>> : i \in 0..MaxImgs } \cup { <<"-", "1">>, <<"1", "x">>, <<"x">> }


\* references returned by the media host for uploaded files
UrlA == Http \o <<"a">>
UrlB == Http \o <<"b">>
UrlC == Http \o <<"c">>
UrlD == Http \o <<"d">>

\* a relative path stored by an earlier version of the application
Legacy == <<"i", "m", "g">>

\* req.files.map(file => file.path)
FileLists == { << >>, <<UrlA, UrlB, UrlC>>, <<UrlD>> }

\* request bodies of create and update
Bodies ==
  { [nombre |-> "casa"],
    [nombre |-> "otra", propietario |-> "u2", activo |-> TRUE],
    [imagenes |-> <<Legacy, Empty>>] }

\* the identifier the storage layer gives a new document of type t
FreeIds(t) == { i \in DocIds : <<t, i>> \notin DOMAIN db }
NewKey(t) == <<t, CHOOSE i \in FreeIds(t) : \A j \in FreeIds(t) : i <= j>>

\* the model's cap on the length of an image list
Fits(k, files) == k \in DOMAIN db => Len(db[k].imagenes) + Len(files) <= MaxImgs

TypeKeys(t) == { k \in Keys : k[1] = t }

----------------------------------------------------------------------------
(* Actions: one per route *)

Init ==
  /\ db = << >>
  /\ inflight = {}
  /\ pre = << >>
  /\ now = 0
  /\ last = [op |-> "init", tipo |-> "", key |-> <<"", 0>>, user |-> "", index |-> NoIndex,
             files |-> << >>, status |-> 0, msg |-> "", img |-> Undefined, saved |-> FALSE,
             destroy |-> "none", count |-> 0, body |-> NoBody, query |-> NoQuery,
             results |-> << >>]

CreateHotelReq ==
  \E u \in Users, body \in Bodies, valid \in BOOLEAN :
    /\ FreeIds("hotel") # {}
    /\ Handle("create", NewKey("hotel"), u, NoIndex, createHotel(u, body, valid))

CreateCabanaReq ==
  \E u \in Users, body \in Bodies, valid \in BOOLEAN :
    /\ FreeIds("cabana") # {}
    /\ Handle("create", NewKey("cabana"), u, NoIndex, createCabana(u, body, valid))

CreateAirbnbReq ==
  \E u \in Users, body \in Bodies, valid \in BOOLEAN :
    /\ FreeIds("airbnb") # {}
    /\ Handle("create", NewKey("airbnb"), u, NoIndex, createAirbnb(u, body, valid))

UpdateAirbnbReq ==
  \E k \in TypeKeys("airbnb"), u \in Users, body \in Bodies, valid \in BOOLEAN :
    Handle("update", k, u, NoIndex, updateAirbnb(k, u, body, valid))

DeleteAirbnbReq ==
  \E k \in TypeKeys("airbnb"), u \in Users :
    Handle("softDelete", k, u, NoIndex, deleteAirbnb(k, u))

HotelUploadReq ==
  \E k \in TypeKeys("hotel"), u \in Users, files \in FileLists :
    /\ Fits(k, files)
    /\ HandleFiles("append", k, u, files, hotelUploadImages(k, u, files))

HotelDeleteImageReq ==
  \E k \in TypeKeys("hotel"), u \in Users, raw \in RawIndices, outcome \in DestroyOutcomes :
    Handle("removeAt", k, u, parseInt(raw), hotelDeleteImage(k, u, parseInt(raw), outcome))

HotelSetMainReq ==
  \E k \in TypeKeys("hotel"), u \in Users, raw \in RawIndices :
    Handle("setPrimary", k, u, parseInt(raw), hotelSetMain(k, u, parseInt(raw)))

HotelToggleReq ==
  \E k \in TypeKeys("hotel"), u \in Users :
    Handle("toggleActive", k, u, NoIndex, hotelToggleStatus(k, u))

CabanaUploadReq ==
  \E k \in TypeKeys("cabana"), u \in Users, files \in FileLists :
    /\ Fits(k, files)
    /\ HandleFiles("append", k, u, files, cabanaUploadImages(k, u, files))

CabanaDeleteImageReq ==
  \E k \in TypeKeys("cabana"), u \in Users, raw \in RawIndices, outcome \in DestroyOutcomes :
    Handle("removeAt", k, u, parseInt(raw), cabanaDeleteImage(k, u, parseInt(raw), outcome))

CabanaSetMainReq ==
  \E k \in TypeKeys("cabana"), u \in Users, raw \in RawIndices :
    Handle("setPrimary", k, u, parseInt(raw), cabanaSetMain(k, u, parseInt(raw)))

CabanaToggleReq ==
  \E k \in TypeKeys("cabana"), u \in Users :
    Handle("toggleActive", k, u, NoIndex, cabanaToggleStatus(k, u))

AirbnbUploadReq ==
  \E k \in TypeKeys("airbnb"), u \in Users, files \in FileLists :
    /\ Fits(k, files)
    /\ HandleFiles("append", k, u, files, airbnbUploadImages(k, u, files))

AirbnbDeleteImageReq ==
  \E k \in TypeKeys("airbnb"), u \in Users, raw \in RawIndices, outcome \in DestroyOutcomes :
    Handle("removeAt", k, u, parseInt(raw), airbnbDeleteImage(k, u, parseInt(raw), outcome))

AirbnbSetMainReq ==
  \E k \in TypeKeys("airbnb"), u \in Users, raw \in RawIndices :
    Handle("setPrimary", k, u, parseInt(raw), airbnbSetMain(k, u, parseInt(raw)))

AirbnbToggleReq ==
  \E k \in TypeKeys("airbnb"), u \in Users :
    Handle("toggleActive", k, u, NoIndex, airbnbToggleStatus(k, u))

MigrateImageUrlsReq ==
  \E u \in Users :
    LET m == migrateFrom(1, db, 0, now + 1) IN
      /\ now < MaxSteps
      /\ now' = now + 1
      /\ inflight' = inflight
      /\ pre' = db
      /\ db' = m.db
      /\ last' = [op |-> "migrate", tipo |-> "cabana", key |-> <<"cabana", 0>>,
                  user |-> u.id, index |-> NoIndex, files |-> << >>,
                  status |-> IF m.threw THEN 500 ELSE 200,
                  msg |-> IF m.threw THEN MsgErrorMigracion ELSE MsgMigracion,
                  img |-> Undefined, saved |-> m.db # db, destroy |-> "none",
                  count |-> m.migrated, body |-> NoBody, query |-> NoQuery,
                  results |-> << >>]

\* The three routers keep their documents in three separate collections and
\* share no state: each is a specification of its own, and Spec is the three
\* side by side.
NextHotel ==
  \/ CreateHotelReq
  \/ HotelUploadReq
  \/ HotelDeleteImageReq
  \/ HotelSetMainReq
  \/ HotelToggleReq

NextCabana ==
  \/ CreateCabanaReq
  \/ CabanaUploadReq
  \/ CabanaDeleteImageReq
  \/ CabanaSetMainReq
  \/ CabanaToggleReq
  \/ MigrateImageUrlsReq

NextAirbnb ==
  \/ CreateAirbnbReq
  \/ UpdateAirbnbReq
  \/ DeleteAirbnbReq
  \/ AirbnbUploadReq
  \/ AirbnbDeleteImageReq
  \/ AirbnbSetMainReq
  \/ AirbnbToggleReq

Next == NextHotel \/ NextCabana \/ NextAirbnb

SpecHotel == Init /\ [][NextHotel]_vars

SpecCabana == Init /\ [][NextCabana]_vars

SpecAirbnb == Init /\ [][NextAirbnb]_vars

Spec == Init /\ [][Next]_vars

----------------------------------------------------------------------------
(* The owner of a new hotel working on its images, one call at a time *)

\* the caller whose id is the owner of document k
OwnerOf(k) == CHOOSE u \in Users : u.id = db[k].propietario

HasOwner(k) == k \in DOMAIN db /\ \E u \in Users : u.id = db[k].propietario

OwnerCreateHotel ==
  \E u \in Users :
    /\ FreeIds("hotel") # {}
    /\ now <= MaxOwnerOps
    /\ Respond("create", NewKey("hotel"), u, NoIndex,
               createHotel(u, [nombre |-> "casa"], TRUE))

OwnerUpload ==
  \E k \in TypeKeys("hotel"), files \in FileLists :
    /\ HasOwner(k)
    /\ Fits(k, files)
    /\ now <= MaxOwnerOps
    /\ RespondFiles("append", k, OwnerOf(k), NoIndex, files,
                    hotelUploadImages(k, OwnerOf(k), files))

OwnerDeleteImage ==
  \E k \in TypeKeys("hotel"), raw \in RawIndices, outcome \in DestroyOutcomes :
    /\ HasOwner(k)
    /\ now <= MaxOwnerOps
    /\ Respond("removeAt", k, OwnerOf(k), parseInt(raw),
               hotelDeleteImage(k, OwnerOf(k), parseInt(raw), outcome))

OwnerSetMain ==
  \E k \in TypeKeys("hotel"), raw \in RawIndices :
    /\ HasOwner(k)
    /\ now <= MaxOwnerOps
    /\ Respond("setPrimary", k, OwnerOf(k), parseInt(raw),
               hotelSetMain(k, OwnerOf(k), parseInt(raw)))

NextOwner ==
  \/ OwnerCreateHotel
  \/ OwnerUpload
  \/ OwnerDeleteImage
  \/ OwnerSetMain

SpecOwner == Init /\ [][NextOwner]_vars

----------------------------------------------------------------------------
(* Reading rentals: GET /, GET /mis-alojamientos and GET /:id of             *)
(* airbnbRoutes.js, handled by airbnbController.js                           *)

\* req.user of a request that carries no token, or has not passed protect
NoUser == [id |-> "", email |-> "", isSuperAdmin |-> FALSE, role |-> ""]

\* whoever sends a request: an administrator with a token, or anybody
Callers == Users \cup {NoUser}

MsgNoAutenticado == "No estas autenticado"

\* a route registered before router.use(authMiddleware.protect): the handler
\* runs for every caller and no middleware has set req.user
BeforeProtect(c) == NoUser

\* a route registered after router.use(authMiddleware.protect): a request
\* without token is answered by protect and never reaches the handler
AfterProtect(c, r) == IF c = NoUser THEN Answer(401, MsgNoAutenticado, Undefined) ELSE r

\* a response that carries documents
Found(status, msg, results) ==
  [status |-> status, msg |-> msg, img |-> Undefined, saved |-> FALSE, doc |-> << >>,
   destroy |-> "none", results |-> results]

\* a document as a response carries it, with its _id
Listed(k) == [id |-> k, doc |-> db[k]]

\* the stored rentals, in the order given by .sort({ [f]: -1 }); documents
\* that tie stay in storage order
RECURSIVE SortDesc(_, _)
SortDesc(S, f) ==
  IF S = {} THEN << >>
  ELSE LET m == CHOOSE k \in S :
                  \A j \in S : \/ db[k][f] > db[j][f]
                               \/ db[k][f] = db[j][f] /\ k[2] <= j[2]
       IN <<Listed(m)>> \o SortDesc(S \ {m}, f)

Rentals == { k \in DOMAIN db : k[1] = "airbnb" }

\* the super-admin test of getAllAirbnb
listIsSuperAdmin(reqUser) ==
  reqUser # NoUser /\ (reqUser.email = EmailDireccion \/ reqUser.isSuperAdmin)

\* the filters getAllAirbnb builds from req.user and req.query
ListFilters(reqUser, query) ==
  IF listIsSuperAdmin(reqUser) THEN << >>
  ELSE [f \in {"activo"}
              \cup (IF "tipo" \in DOMAIN query THEN {"tipoPropiedad"} ELSE {})
              \cup (IF "precioMin" \in DOMAIN query THEN {"precioMin"} ELSE {}) |->
          CASE f = "activo" -> TRUE
            [] f = "tipoPropiedad" -> query.tipo
            [] f = "precioMin" -> query.precioMin]

\* Airbnb.find(filters): equality on activo and tipoPropiedad, $gte on
\* precioPorNoche
MatchesFilters(doc, filters) ==
  \A f \in DOMAIN filters :
    CASE f = "activo" -> doc.activo = filters[f]
      [] f = "tipoPropiedad" -> doc.tipoPropiedad = filters[f]
      [] f = "precioMin" -> doc.precioPorNoche >= filters[f]

\* getAllAirbnb
getAllAirbnb(reqUser, query) ==
  LET filters == ListFilters(reqUser, query)
  IN Found(200, "", SortDesc({ k \in Rentals : MatchesFilters(db[k], filters) }, "updatedAt"))

\* getAirbnb
getAirbnb(k) ==
  IF ~Exists(k) THEN Answer(404, MsgNoEncontrado, Undefined)
  ELSE Found(200, "", <<Listed(k)>>)

\* a slip: the filter of the public list added to the caller's own records
MineQueryActive(reqUser) ==
  IF reqUser.email = EmailDireccion \/ reqUser.isSuperAdmin THEN Rentals
  ELSE { k \in Rentals : db[k].propietario = reqUser.id /\ db[k].activo }

\* the documents getMisAirbnb asks for: query = { propietario: req.user.id },
\* or {} for the super-admin
MineQuery(reqUser) ==
  IF reqUser.email = EmailDireccion \/ reqUser.isSuperAdmin THEN Rentals
  ELSE { k \in Rentals : db[k].propietario = reqUser.id }

\* getMisAirbnb
getMisAirbnb(reqUser) == Found(200, "", SortDesc(MineQuery(reqUser), "createdAt"))

\* the request is handled at time now + 1; a handler that read documents
\* sends them with the response
RespondListing(op, k, c, body, query, r) ==
  /\ now < MaxListingSteps
  /\ now' = now + 1
  /\ inflight' = inflight
  /\ pre' = db
  /\ db' = IF r.saved THEN Save(k, r.doc) ELSE db
  /\ last' = [op |-> op, tipo |-> "airbnb", key |-> k, user |-> c.id, index |-> NoIndex,
              files |-> << >>, status |-> r.status, msg |-> r.msg, img |-> r.img,
              saved |-> r.saved, destroy |-> r.destroy,
              count |-> IF r.saved THEN Len(r.doc.imagenes) ELSE 0,
              body |-> body, query |-> query,
              results |-> IF "results" \in DOMAIN r THEN r.results ELSE << >>]

ListedIds == 1..MaxListed

ListingKeys == { <<"airbnb", i>> : i \in ListedIds }

\* request bodies of POST /nuevo
ListingBodies ==
  { [nombre |-> "casa", tipoPropiedad |-> "casa", precioPorNoche |-> 3],
    [nombre |-> "otra", propietario |-> "u2", tipoPropiedad |-> "depto", precioPorNoche |-> 1] }

\* query strings of GET /
Queries ==
  { NoQuery, [tipo |-> "casa"], [precioMin |-> 2], [tipo |-> "depto", precioMin |-> 2] }

FreeListedIds == { i \in ListedIds : <<"airbnb", i>> \notin DOMAIN db }
NewListedKey == <<"airbnb", CHOOSE i \in FreeListedIds : \A j \in FreeListedIds : i <= j>>

\* POST /nuevo
ListingCreateReq ==
  \E c \in Callers, body \in ListingBodies, valid \in BOOLEAN :
    /\ FreeListedIds # {}
    /\ RespondListing("create", NewListedKey, c, body, NoQuery,
                      AfterProtect(c, createAirbnb(c, body, valid)))

\* DELETE /editar/:id
ListingDeleteReq ==
  \E c \in Callers, k \in ListingKeys :
    RespondListing("softDelete", k, c, NoBody, NoQuery, AfterProtect(c, deleteAirbnb(k, c)))

\* GET /
ListingListReq ==
  \E c \in Callers, query \in Queries :
    RespondListing("list", <<"airbnb", 0>>, c, NoBody, query,
                   getAllAirbnb(BeforeProtect(c), query))

\* GET /mis-alojamientos
ListingMineReq ==
  \E c \in Callers :
    RespondListing("listMine", <<"airbnb", 0>>, c, NoBody, NoQuery,
                   AfterProtect(c, getMisAirbnb(c)))

\* GET /:id
ListingGetReq ==
  \E c \in Callers, k \in ListingKeys :
    RespondListing("get", k, c, NoBody, NoQuery, AfterProtect(c, getAirbnb(k)))

NextListing ==
  \/ ListingCreateReq
  \/ ListingDeleteReq
  \/ ListingListReq
  \/ ListingMineReq
  \/ ListingGetReq

SpecListing == Init /\ [][NextListing]_vars

----------------------------------------------------------------------------
(* Uploads to a hotel, with file.path as the storage engine hands it over *)

\* req.files.map(file => file.path) when the storage engine gives a file no
\* path: the route takes file.path as it comes
RawFileLists == FileLists \cup { <<Empty>>, <<UrlD, Empty>> }

HotelUploadRawReq ==
  \E k \in TypeKeys("hotel"), u \in Users, files \in RawFileLists :
    /\ Fits(k, files)
    /\ now <= MaxOwnerOps
    /\ RespondFiles("append", k, u, NoIndex, files, hotelUploadImages(k, u, files))

NextUpload ==
  \/ OwnerCreateHotel
  \/ HotelUploadRawReq

SpecUpload == Init /\ [][NextUpload]_vars

----------------------------------------------------------------------------
(* Overlapping requests to hotelRoutes.js.  A handler that gets as far as   *)
(* `await hotel.save()' has read the hotel, changed its own copy and awaits:  *)
(* other requests are served meanwhile.  `inflight' holds these handlers,    *)
(* each with the copy it read and the copy it is about to save.              *)

MaxOverlapSteps == 5
MaxInflight == 2

\* what hotel.save() writes: the document as the handler holds it, or only
\* the paths the handler assigned (an upload's push being appended to the
\* stored list); the sources do not say which
Persist(mode, f) ==
  LET cur == db[f.key]
      doc == f.doc
  IN  IF mode = "document" THEN doc
      ELSE [p \in DOMAIN cur |->
              IF p = "imagenes" /\ f.op = "append" THEN Push(cur.imagenes, f.files)
              ELSE IF doc[p] # f.base[p] THEN doc[p]
              ELSE cur[p]]

\* the catch block of each hotel route, entered when save() rejects
hotelCatch(op) ==
  IF op = "append"
  THEN [status |-> 500, msg |-> "Error del servidor al subir imagenes"]
  ELSE IF op = "removeAt"
  THEN [status |-> 500, msg |-> "Error del servidor al eliminar imagen"]
  ELSE IF op = "setPrimary"
  THEN [status |-> 500, msg |-> "Error del servidor al establecer imagen principal"]
  ELSE [status |-> 400, msg |-> "save failed"]

\* A request arrives.  A handler that returns before save() answers at once;
\* one that reaches save() (the media host has been called by then) is held
\* in flight with the hotel it read.
Begin(op, k, u, index, files, r) ==
  /\ now < MaxOverlapSteps
  /\ IF r.saved
     THEN /\ Cardinality(inflight) < MaxInflight
          /\ inflight' = inflight \cup
               {[op |-> op, key |-> k, user |-> u.id, index |-> index,
                 files |-> files, base |-> db[k], doc |-> r.doc, status |-> r.status,
                 msg |-> r.msg, img |-> r.img, destroy |-> r.destroy, at |-> now + 1]}
          /\ now' = now + 1
          /\ UNCHANGED <<db, pre, last>>
     ELSE RespondFiles(op, k, u, index, files, r)

\* save() of a handler in flight resolves, or rejects into the catch block
Finish ==
  \E f \in inflight, saveOk \in BOOLEAN, mode \in {"document", "delta"} :
    /\ now < MaxOverlapSteps
    /\ now' = now + 1
    /\ inflight' = inflight \ {f}
    /\ pre' = db
    /\ db' = IF saveOk
             THEN [db EXCEPT ![f.key] = Timestamps(Persist(mode, f), now + 1)]
             ELSE db
    /\ last' = [op |-> f.op, tipo |-> f.key[1], key |-> f.key, user |-> f.user,
                index |-> f.index, files |-> f.files,
                status |-> IF saveOk THEN f.status ELSE hotelCatch(f.op).status,
                msg |-> IF saveOk THEN f.msg ELSE hotelCatch(f.op).msg,
                img |-> f.img, saved |-> saveOk, destroy |-> f.destroy,
                count |-> IF saveOk THEN Len(db'[f.key].imagenes) ELSE 0,
                body |-> NoBody, query |-> NoQuery, results |-> << >>]

\* the callers of the overlapping requests: an owner and a super-administrator
OverlapUsers == { u \in Users : u.email # EmailSuperadmin }

OverlapIndices == { <<"0">>, <<"1">> }

OverlapCreate ==
  \E u \in OverlapUsers :
    /\ FreeIds("hotel") # {}
    /\ now < MaxOverlapSteps
    /\ Respond("create", NewKey("hotel"), u, NoIndex,
               createHotel(u, [imagenes |-> <<UrlA, UrlB>>], TRUE))

OverlapUpload ==
  \E k \in TypeKeys("hotel"), u \in OverlapUsers :
    \* the media host gives every uploaded file a reference of its own
    LET files == <<Http \o <<DigitChar(now + 1)>>>> IN
      Begin("append", k, u, NoIndex, files, hotelUploadImages(k, u, files))

OverlapDeleteImage ==
  \E k \in TypeKeys("hotel"), u \in OverlapUsers, raw \in OverlapIndices,
     outcome \in DestroyOutcomes :
    Begin("removeAt", k, u, parseInt(raw), << >>,
          hotelDeleteImage(k, u, parseInt(raw), outcome))

OverlapSetMain ==
  \E k \in TypeKeys("hotel"), u \in OverlapUsers, raw \in OverlapIndices :
    Begin("setPrimary", k, u, parseInt(raw), << >>, hotelSetMain(k, u, parseInt(raw)))

OverlapToggle ==
  \E k \in TypeKeys("hotel"), u \in OverlapUsers :
    Begin("toggleActive", k, u, NoIndex, << >>, hotelToggleStatus(k, u))

NextOverlap ==
  \/ OverlapCreate
  \/ OverlapUpload
  \/ OverlapDeleteImage
  \/ OverlapSetMain
  \/ OverlapToggle
  \/ Finish

SpecOverlap == Init /\ [][NextOverlap]_vars

\* toggle-status requests only: nothing else touches the active flag
NextToggles ==
  \/ OverlapCreate
  \/ OverlapToggle
  \/ Finish

SpecToggles == Init /\ [][NextToggles]_vars

-----------------------------------------------------------------------------
(* Properties.  They speak of the request just handled: `last' is the request *)
(* and its response, `pre' the database before it and `db' the database     *)
(* after it.                                                                 *)

\* the document the last request addressed was stored before the request
Stored == last.key \in DOMAIN pre

\* the image list of that document before and after the request
Before == pre[last.key].imagenes
After == db[last.key].imagenes

\* the last request came from the owner of the document it addressed
ByOwner == Stored /\ pre[last.key].propietario = last.user

\* the index of the last request is an integer position of the list
InRange == ~last.index.nan /\ last.index.n >= 0 /\ last.index.n < Len(Before)

Caller == CHOOSE u \in Users : u.id = last.user

\* recognised as super-administrator by every handler
ElevatedEverywhere(u) == u.email = EmailDireccion \/ u.isSuperAdmin

\* recognised as super-administrator by no handler
PlainAdmin(u) ==
  /\ u.email \notin {EmailDireccion, EmailSuperadmin}
  /\ ~u.isSuperAdmin
  /\ u.role # "super-admin"

\* the list L without its position i (counted from 0)
SeqRemoveAt(L, i) == [j \in 1..(Len(L) - 1) |-> IF j <= i THEN L[j] ELSE L[j + 1]]

\* the list L with its position i (counted from 0) moved to the front
SeqMoveToFront(L, i) ==
  [j \in 1..Len(L) |-> IF j = 1 THEN L[i + 1] ELSE IF j <= i + 1 THEN L[j - 1] ELSE L[j]]

\* C1: removeAt(i) by the owner of an active record, with i an integer position
\* of the image list, succeeds, stores the list without position i (the other
\* elements in their order) and returns the element that was at i.
C1_RemoveAtInRange ==
  (last.op = "removeAt" /\ ByOwner /\ pre[last.key].activo /\ InRange)
    => /\ last.status = 200
       /\ After = SeqRemoveAt(Before, last.index.n)
       /\ last.img = Before[last.index.n + 1]

\* C2: setPrimary(i) by the owner of an active record, with 0 < i < len, stores
\* the list with the element of position i moved to the front, the others in
\* their order, and returns that element.
C2_SetPrimaryInRange ==
  (last.op = "setPrimary" /\ ByOwner /\ pre[last.key].activo /\ InRange
     /\ last.index.n > 0)
    => /\ last.status = 200
       /\ After = SeqMoveToFront(Before, last.index.n)
       /\ last.img = Before[last.index.n + 1]

\* C3: setPrimary(0) by the owner of an active record with a non-empty image
\* list succeeds, returns images[0], saves nothing and leaves the record as it
\* was.
C3_SetPrimaryZeroNoOp ==
  (last.op = "setPrimary" /\ ByOwner /\ pre[last.key].activo /\ InRange
     /\ last.index.n = 0)
    => /\ last.status = 200
       /\ last.img = Before[1]
       /\ ~last.saved
       /\ db = pre

\* C4: each append, setPrimary and removeAt call of the owner on an active
\* hotel stores the list the pure sequence operation gives from the list
\* before the call: the uploaded references added at the end, position i moved
\* to the front, position i taken out.
C4_OwnerCallsArePureOps ==
  (ByOwner /\ pre[last.key].activo)
    => /\ (last.op = "append" /\ last.files # << >>)
            => (last.status = 200 /\ After = Before \o last.files)
       /\ (last.op = "setPrimary" /\ InRange)
            => (last.status = 200 /\ After = SeqMoveToFront(Before, last.index.n))
       /\ (last.op = "removeAt" /\ InRange)
            => (last.status = 200 /\ After = SeqRemoveAt(Before, last.index.n))

\* the scenario's last step: removeAt(1) of [c, a, b], the list setPrimary(2)
\* made of the uploaded [a, b, c], leaves [c, b]
C4_Witness ==
  /\ last.op = "removeAt"
  /\ last.status = 200
  /\ last.index = Num(1)
  /\ Stored
  /\ Before = <<UrlC, UrlA, UrlB>>
  /\ After = <<UrlC, UrlB>>

\* C5: removeAt and setPrimary answer with an error whenever the index is not
\* an integer position of the image list (negative, too large, not a number, or
\* the list is empty), and then the database is as before and the media host
\* has not been called.
C5_BadIndexRejected ==
  (last.op \in {"removeAt", "setPrimary"} /\ Stored /\ ~InRange)
    => /\ last.status >= 400
       /\ db = pre
       /\ last.destroy = "none"

\* C6: the owner of a record is the administrator who created it, and no
\* request changes the owner of a stored record.
C6_OwnerNeverChanges ==
  \A k \in DOMAIN db :
    IF k \in DOMAIN pre THEN db[k].propietario = pre[k].propietario
    ELSE db[k].propietario = last.user

\* C7: the active flag of a stored record changes only by softDelete (active
\* to inactive) and by toggleActive of an elevated caller; update and the
\* image operations never change it.
C7_ActiveOnlyByDeleteOrToggle ==
  \A k \in DOMAIN pre :
    db[k].activo # pre[k].activo
      => \/ last.op = "softDelete" /\ last.key = k /\ pre[k].activo
         \/ last.op = "toggleActive" /\ last.key = k /\ ~PlainAdmin(Caller)

\* C8: toggleActive by the owner of a record, when the owner is not elevated,
\* is answered 403 and changes nothing (flag and audit stamp included), while
\* update by the same owner is never refused: it succeeds unless the schema
\* validators reject the patch.
C8_OwnerUpdatesButCannotToggle ==
  (ByOwner /\ PlainAdmin(Caller))
    => /\ last.op = "toggleActive" => (last.status = 403 /\ db = pre)
       /\ last.op = "update"
            => \/ last.status = 200 /\ last.saved
               \/ last.status = 400 /\ last.msg = MsgValidacion

\* the owner's toggle is refused on a record whose audit stamp is that of the
\* owner's own successful update
C8_Witness ==
  /\ last.op = "toggleActive"
  /\ last.status = 403
  /\ ByOwner
  /\ PlainAdmin(Caller)
  /\ db[last.key].ultimaModificacion.usuario = last.user
  /\ db[last.key].ultimaModificacion.campos # {}

\* C9: update and softDelete by a caller who is neither the owner of the
\* stored record nor elevated are answered 403 without any write: the database
\* is as before.
C9_StrangerRefused ==
  (last.op \in {"update", "softDelete"} /\ Stored /\ ~ByOwner
     /\ ~ElevatedEverywhere(Caller))
    => /\ last.status = 403
       /\ ~last.saved
       /\ db = pre

C9_Witness ==
  /\ last.op = "softDelete"
  /\ last.status = 403
  /\ Stored
  /\ ~ByOwner
  /\ ~ElevatedEverywhere(Caller)
  /\ pre[last.key].activo
  /\ db = pre

\* C10: a stored record is changed by a request only when the caller is its
\* owner or an elevated caller.
C10_ChangesOnlyByOwnerOrElevated ==
  \A k \in DOMAIN pre :
    db[k] # pre[k] => (pre[k].propietario = last.user \/ ~PlainAdmin(Caller))

\* C11: append, removeAt and setPrimary are authorized as update is: a caller
\* every handler recognises as super-administrator, who is not the owner of an
\* active record, performs them on that record as the owner would (files
\* uploaded, index a position of the list) and is answered 200.
C11_ElevatedMayManageImages ==
  (Stored /\ ~ByOwner /\ pre[last.key].activo /\ ElevatedEverywhere(Caller))
    => /\ (last.op = "append" /\ last.files # << >>) => last.status = 200
       /\ (last.op \in {"removeAt", "setPrimary"} /\ InRange) => last.status = 200

\* the last request carried a token
Authenticated == last.user # ""

\* the ids of the documents the last response carries
ResultIds == { last.results[i].id : i \in 1..Len(last.results) }

\* the rentals stored when the last request was handled
StoredRentals == { k \in DOMAIN pre : k[1] = "airbnb" }

\* the document meets every filter the query string of the last request names
MeetsQuery(doc) ==
  /\ "tipo" \in DOMAIN last.query => doc.tipoPropiedad = last.query.tipo
  /\ "precioMin" \in DOMAIN last.query => doc.precioPorNoche >= last.query.precioMin

\* C12: a list call of a caller who is not elevated (or sends no token) returns
\* only active records that meet every supplied filter, so never a
\* soft-deleted one; a list call of an elevated caller returns every stored
\* record, inactive ones included, whatever the filters.
C12_ListByCaller ==
  last.op = "list"
    => IF Authenticated /\ ElevatedEverywhere(Caller)
       THEN ResultIds = StoredRentals
       ELSE \A i \in 1..Len(last.results) :
              last.results[i].doc.activo /\ MeetsQuery(last.results[i].doc)

\* C13: get(id) needs no authentication: for a stored id every caller, with or
\* without token, is answered 200 with the record, and for an absent id 404.
C13_GetIsPublic ==
  last.op = "get"
    => IF Stored
       THEN last.status = 200 /\ last.results = <<[id |-> last.key, doc |-> pre[last.key]]>>
       ELSE last.status = 404

C15_ListMine ==
  (last.op = "listMine" /\ Authenticated)
    => /\ last.status = 200
       /\ ResultIds = IF ElevatedEverywhere(Caller) THEN StoredRentals
                      ELSE { k \in StoredRentals : pre[k].propietario = last.user }
       /\ Len(last.results) = Cardinality(ResultIds)
       /\ \A i \in 1..Len(last.results) : last.results[i].doc = pre[last.results[i].id]
       /\ \A i, j \in 1..Len(last.results) :
            i < j => last.results[i].doc.createdAt > last.results[j].doc.createdAt

\* a caller who is not elevated gets both own records, the newer first and
\* the soft-deleted one among them
C15_Witness ==
  /\ last.op = "listMine"
  /\ Authenticated
  /\ ~ElevatedEverywhere(Caller)
  /\ Len(last.results) = 2
  /\ last.results[1].doc.createdAt > last.results[2].doc.createdAt
  /\ \E i \in 1..2 : ~last.results[i].doc.activo
  /\ \A i \in 1..2 : last.results[i].doc.propietario = last.user

C18_AppendAtEnd ==
  (last.op = "append" /\ last.status = 200)
    => /\ Stored
       /\ last.files # << >>
       /\ last.saved
       /\ Len(After) = Len(Before) + Len(last.files)
       /\ \A i \in 1..Len(Before) : After[i] = Before[i]
       /\ \A i \in 1..Len(last.files) : After[Len(Before) + i] = last.files[i]
       /\ last.count = Len(After)

\* an upload onto a list that already holds two references
C18_Witness ==
  /\ last.op = "append"
  /\ last.status = 200
  /\ Stored
  /\ Len(Before) = 2
  /\ last.files = <<UrlD>>
  /\ After = Before \o <<UrlD>>

Cabins == { k \in DOMAIN db : k[1] = "cabana" }
CabinOwner(k) == CHOOSE u \in Users : u.id = db[k].propietario

\* the integers among the index texts that are no position of list L
OutOfRange(L) ==
  { parseInt(raw) : raw \in { r \in RawIndices :
      ~parseInt(r).nan /\ (parseInt(r).n < 0 \/ parseInt(r).n >= Len(L)) } }

\* C20: every response carries the status of its class: 201 for a create and
\* 200 for any other success, 400 for a validation error, 403 for a refused
\* permission, 404 for a record or image that is not found, 500 for an
\* unexpected failure; and an index out of range is answered with one and the
\* same status by the routes that check it.
C20_StatusByClass ==
  /\ last.msg \in {MsgNoRecibidos, MsgValidacion} => last.status = 400
  /\ last.msg = MsgSinPrivilegios => last.status = 403
  /\ last.msg \in {MsgCabanaNoAsociada, MsgCabanaNoEncontrada, MsgNoHayEliminar,
                   MsgNoHayDisponibles} => last.status = 404
  /\ last.msg = MsgErrorMigracion => last.status = 500
  /\ last.saved => last.status = IF last.op = "create" THEN 201 ELSE 200
  /\ \A k \in Cabins :
       (db[k].activo /\ db[k].imagenes # << >> /\ db[k].propietario \in UserIds)
         => \A i \in OutOfRange(db[k].imagenes) :
              cabanaDeleteImage(k, CabinOwner(k), i, "ok").status
                = cabanaSetMain(k, CabinOwner(k), i).status

\* two responses a caller cannot tell apart
SameAnswer(r1, r2) == r1.status = r2.status /\ r1.msg = r2.msg

\* append, removeAt and setPrimary of the lodging type a key belongs to
AppendOf(k, u, files) ==
  IF k[1] = "hotel" THEN hotelUploadImages(k, u, files)
  ELSE IF k[1] = "cabana" THEN cabanaUploadImages(k, u, files)
  ELSE airbnbUploadImages(k, u, files)

RemoveAtOf(k, u, i) ==
  IF k[1] = "hotel" THEN hotelDeleteImage(k, u, i, "ok")
  ELSE IF k[1] = "cabana" THEN cabanaDeleteImage(k, u, i, "ok")
  ELSE airbnbDeleteImage(k, u, i, "ok")

SetPrimaryOf(k, u, i) ==
  IF k[1] = "hotel" THEN hotelSetMain(k, u, i)
  ELSE IF k[1] = "cabana" THEN cabanaSetMain(k, u, i)
  ELSE airbnbSetMain(k, u, i)

\* an id of the same lodging type under which nothing is stored
Absent(k) == <<k[1], 0>>

\* a caller who is neither the owner of the record stored under k nor elevated
Outsider(k, u) == db[k].propietario # u.id /\ ~ElevatedEverywhere(u)

\* the image requests of an outsider on k are answered as on an absent id
ImageAnswersAlike(k, u) ==
  /\ \A files \in FileLists :
       SameAnswer(AppendOf(k, u, files), AppendOf(Absent(k), u, files))
  /\ \A raw \in RawIndices :
       /\ SameAnswer(RemoveAtOf(k, u, parseInt(raw)),
                     RemoveAtOf(Absent(k), u, parseInt(raw)))
       /\ SameAnswer(SetPrimaryOf(k, u, parseInt(raw)),
                     SetPrimaryOf(Absent(k), u, parseInt(raw)))

\* C21 (as claimed): to a caller who is neither its owner nor elevated, every
\* mutating request (update, softDelete, image append/removeAt/setPrimary) on
\* a stored record is answered with the status and message the same request
\* gets for an id under which nothing is stored.
C21_ExistenceNotLeaked ==
  \A k \in DOMAIN db, u \in Users :
    Outsider(k, u)
      => /\ ImageAnswersAlike(k, u)
         /\ k[1] = "airbnb"
              => /\ \A body \in Bodies, valid \in BOOLEAN :
                      SameAnswer(updateAirbnb(k, u, body, valid),
                                 updateAirbnb(Absent(k), u, body, valid))
                 /\ SameAnswer(deleteAirbnb(k, u), deleteAirbnb(Absent(k), u))

\* C21 (amended): to a caller who is neither its owner nor elevated, the image
\* requests (append, removeAt, setPrimary) on a stored record are answered
\* with the status and message they get for an id under which nothing is
\* stored; update and softDelete answer 403 for the stored record and 404 for
\* the absent id.
C21_ImageRoutesDoNotLeak ==
  \A k \in DOMAIN db, u \in Users :
    Outsider(k, u)
      => /\ ImageAnswersAlike(k, u)
         /\ k[1] = "airbnb"
              => /\ \A body \in Bodies, valid \in BOOLEAN :
                      /\ updateAirbnb(k, u, body, valid).status = 403
                      /\ updateAirbnb(Absent(k), u, body, valid).status = 404
                 /\ deleteAirbnb(k, u).status = 403
                 /\ deleteAirbnb(Absent(k), u).status = 404

\* an outsider's image request on a stored, active rental has been answered
C21_Witness ==
  /\ last.op \in {"append", "removeAt", "setPrimary"}
  /\ last.key \in DOMAIN pre
  /\ last.key \in DOMAIN db
  /\ pre[last.key].activo
  /\ Authenticated
  /\ Outsider(last.key, Caller)
  /\ last.status = 404
  /\ ImageAnswersAlike(last.key, Caller)

\* the toggle-status route of the lodging type a key belongs to
ToggleOf(k, u) ==
  IF k[1] = "hotel" THEN hotelToggleStatus(k, u)
  ELSE IF k[1] = "cabana" THEN cabanaToggleStatus(k, u)
  ELSE airbnbToggleStatus(k, u)

\* C22: a caller whose toggle-status request on one stored record is accepted
\* has that request accepted on every stored record of the other lodging
\* types too, and on any stored rental such a caller's update is answered 200
\* and softDelete 204 whoever owns it, and listMine returns every stored
\* rental.
C22_OneElevatedPredicate ==
  \A u \in Users, k \in DOMAIN db :
    ToggleOf(k, u).status = 200
      => /\ \A k2 \in DOMAIN db : ToggleOf(k2, u).status = 200
         /\ \A k2 \in DOMAIN db :
              k2[1] = "airbnb"
                => /\ updateAirbnb(k2, u, [nombre |-> "casa"], TRUE).status = 200
                   /\ deleteAirbnb(k2, u).status = 204
                   /\ Len(getMisAirbnb(u).results) = Cardinality(Rentals)

\* the image list a record holds once a request answered with r is over
ListAfter(k, r) == IF r.saved THEN r.doc.imagenes ELSE db[k].imagenes

\* two implementations agree: both succeed or both fail, and when they
\* succeed they leave the same image list
SameOutcome(k1, r1, k2, r2) ==
  /\ (r1.status = 200) = (r2.status = 200)
  /\ r1.status = 200 => ListAfter(k1, r1) = ListAfter(k2, r2)

\* C23: on two active records of different lodging types that have the same
\* owner and hold the same image list, removeAt and setPrimary with the same
\* index value agree on whether the call succeeds and on the resulting list.
C23_SameImageBehaviour ==
  \A k1 \in DOMAIN db, k2 \in DOMAIN db :
    ( /\ k1[1] # k2[1]
      /\ db[k1].activo /\ db[k2].activo
      /\ db[k1].propietario = db[k2].propietario
      /\ db[k1].imagenes = db[k2].imagenes )
      => \A raw \in RawIndices :
           LET u == CHOOSE x \in Users : x.id = db[k1].propietario
               i == parseInt(raw)
           IN  /\ SameOutcome(k1, RemoveAtOf(k1, u, i), k2, RemoveAtOf(k2, u, i))
               /\ SameOutcome(k1, SetPrimaryOf(k1, u, i), k2, SetPrimaryOf(k2, u, i))

C25_DestroyedMeansRemoved ==
  (last.op = "removeAt" /\ last.destroy = "ok")
    => \A k \in DOMAIN db :
         \A j \in 1..Len(db[k].imagenes) : db[k].imagenes[j] # last.img

\* C26: every toggleActive request answered 200 leaves the record's active
\* flag the negation of what was stored just before it completed, so that n
\* completed requests flip the initial value n times however they overlap,
\* and the audit stamp reads 'activado' exactly when the flag is true.
C26_EveryToggleFlips ==
  (last.op = "toggleActive" /\ last.status = 200)
    => /\ db[last.key].activo = ~pre[last.key].activo
       /\ (db[last.key].ultimaModificacion.accion = "activado") = db[last.key].activo

\* the text s begins with the text p
HasPrefix(s, p) == Len(s) >= Len(p) /\ \A j \in 1..Len(p) : s[j] = p[j]

\* the reference is rooted or a full URL
Rooted(img) == HasPrefix(img, <<"/">>) \/ HasPrefix(img, <<"h", "t", "t", "p">>)

\* C28: after a run of the image-URL migration every image reference of every
\* cabin starts with '/' or 'http', every image list has the length and the
\* element order it had before (a changed element being the old one prefixed
\* with '/'), and a second run changes no record and reports migrated = 0.
C28_MigrationIdempotent ==
  last.op = "migrate"
    => /\ DOMAIN db = DOMAIN pre
       /\ \A k \in DOMAIN db :
            /\ Len(db[k].imagenes) = Len(pre[k].imagenes)
            /\ \A j \in 1..Len(db[k].imagenes) :
                 /\ Rooted(db[k].imagenes[j])
                 /\ \/ db[k].imagenes[j] = pre[k].imagenes[j]
                    \/ db[k].imagenes[j] = <<"/">> \o pre[k].imagenes[j]
       /\ LET again == migrateFrom(1, db, 0, now + 1)
          IN  /\ again.db = db
              /\ again.migrated = 0
              /\ ~again.threw

\* the document stored under k once a request answered with r is over
DocAfter(k, r) == IF r.saved THEN r.doc ELSE db[k]

\* C27: once a softDelete of a rental has succeeded the rental is inactive and
\* no update, image request or further softDelete of its owner makes it active
\* again, a further softDelete of the owner being answered 204; and in every
\* state a rental that was inactive before the last request is active after
\* it only if that request was an accepted toggleActive on it.
C27_StaysInactive ==
  /\ (last.op = "softDelete" /\ last.status = 204)
       => LET k == last.key
              u == CHOOSE x \in Users : x.id = db[k].propietario
          IN  /\ ~db[k].activo
              /\ \A body \in Bodies, valid \in BOOLEAN :
                   ~DocAfter(k, updateAirbnb(k, u, body, valid)).activo
              /\ \A files \in FileLists :
                   ~DocAfter(k, airbnbUploadImages(k, u, files)).activo
              /\ \A raw \in RawIndices :
                   /\ ~DocAfter(k, airbnbDeleteImage(k, u, parseInt(raw), "ok")).activo
                   /\ ~DocAfter(k, airbnbSetMain(k, u, parseInt(raw))).activo
              /\ deleteAirbnb(k, u).status = 204
              /\ ~DocAfter(k, deleteAirbnb(k, u)).activo
  /\ \A k \in DOMAIN pre :
       (k[1] = "airbnb" /\ ~pre[k].activo /\ db[k].activo)
         => (last.op = "toggleActive" /\ last.key = k /\ last.status = 200)

====
